---------------------------- MODULE Spec2Model ----------------------------
(***************************************************************************)
(* Model of parse_ros2_logs.py: the ParseRos2Logs class (a pyparsing       *)
(* grammar for "[log_severity] [timestamp] [node_name]: message", the      *)
(* accumulated list of parse results and its two projections) and main().  *)
(*                                                                         *)
(* A text is a sequence of characters.  An ASCII character is the          *)
(* one-character string; Kana stands for any character outside ASCII.      *)
(***************************************************************************)
EXTENDS Integers, Sequences, FiniteSets, TLC

VARIABLES
    log_data,   \* self.__log_data of the ParseRos2Logs instance
    stdout,     \* the lines printed so far
    call,       \* the last call made: its name and its argument
    ret,        \* the value that call returned
    submitted,  \* history: every line handed to parse_log/parse_logs, in order
    seen,       \* history: what each accessor returned since the last parse call
    pending,    \* the lines a caller is about to submit
    argv1,      \* what argv[1] names when main() runs
    status      \* "imported", or main(): "running", "exit(0)", "returned"

vars == <<log_data, stdout, call, ret, submitted, seen, pending, argv1, status>>

(***************************************************************************)
(* Characters.  The model's alphabet holds representatives of every class  *)
(* the grammar tells apart.                                                *)
(***************************************************************************)
SP == " "
TAB == "\t"
NL == "\n"
LB == "["
RB == "]"
COLON == ":"
Kana == "<U+3042>"

\* string.ascii_letters + string.digits, restricted to the model's alphabet
alphanums == {"a", "b", "1"}

\* the punctuation both Word character sets list, restricted to the alphabet
punct == {".", COLON}

\* pyparsing's default whitespace characters
DEFAULT_WHITE_CHARS == {SP, NL, TAB, "\r"}

\* str.expandtabs() default tab size
tabsize == 8

(***************************************************************************)
(* pyparsing, as far as the pattern uses it.                               *)
(***************************************************************************)
\* faulty variant: the header Word also lists the space
HeaderChars_WithSpace == alphanums \cup punct \cup {SP}

\* the characters Word(...) of a header field accepts (line 56)
HeaderChars == alphanums \cup punct

\* faulty variant: the message Word lists no brackets, like the header Word
MessageChars_NoBrackets == alphanums \cup {SP} \cup punct

\* faulty variant: the message Word takes the rest of the text, newline included
MessageChars_WithNewline == alphanums \cup {SP, NL} \cup punct \cup {LB, RB}

\* the characters Word(...) of the message accepts (line 57)
MessageChars == alphanums \cup {SP} \cup punct \cup {LB, RB}

Suppress(ch) == [kind |-> "Suppress", match |-> {ch}, name |-> ""]

Word(chars, name) == [kind |-> "Word", match |-> chars, name |-> name]

\* header = lambda name: Suppress('[') + Word(...).set_results_name(name) + Suppress(']')
header(name) == <<Suppress(LB), Word(HeaderChars, name), Suppress(RB)>>

\* message = Word(...); used as message('message')
message(name) == <<Word(MessageChars, name)>>

\* faulty variant: the message Word is given no results name
define_patterns_unnamed_message ==
    header("log_severity") \o header("timestamp") \o header("node_name")
        \o <<Suppress(COLON)>> \o message("")

\* ParseRos2Logs.__define_patterns: the And of the eleven elements
define_patterns ==
    header("log_severity") \o header("timestamp") \o header("node_name")
        \o <<Suppress(COLON)>> \o message("message")

\* str.expandtabs(): a tab becomes spaces up to the next multiple of tabsize;
\* the column restarts after a newline or carriage return
RECURSIVE expandtabs_from(_, _, _)
expandtabs_from(s, i, col) ==
    IF i > Len(s) THEN <<>>
    ELSE IF s[i] = TAB
         THEN [k \in 1..(tabsize - (col % tabsize)) |-> SP]
                  \o expandtabs_from(s, i + 1, 0)
         ELSE <<s[i]>> \o expandtabs_from(s, i + 1,
                              IF s[i] \in {NL, "\r"} THEN 0 ELSE col + 1)

expandtabs(s) == expandtabs_from(s, 1, 0)

\* ParserElement._skipIgnorables / preParse: skip leading whitespace
RECURSIVE preParse(_, _)
preParse(s, loc) ==
    IF loc <= Len(s) /\ s[loc] \in DEFAULT_WHITE_CHARS
    THEN preParse(s, loc + 1)
    ELSE loc

\* the end (exclusive) of the run of characters of chars that starts at loc
RECURSIVE runEnd(_, _, _)
runEnd(s, loc, chars) ==
    IF loc <= Len(s) /\ s[loc] \in chars
    THEN runEnd(s, loc + 1, chars)
    ELSE loc

\* And.parseImpl over the elements from index k on; toks are the
\* (results name, token) pairs collected so far.  A Literal under Suppress
\* consumes one character and adds no token; a Word consumes the longest run
\* of its characters (at least one) and adds it as a token.
RECURSIVE parseImpl(_, _, _, _, _)
parseImpl(exprs, k, s, loc, toks) ==
    IF k > Len(exprs) THEN [ok |-> TRUE, loc |-> loc, toks |-> toks]
    ELSE LET e == exprs[k]
             start == preParse(s, loc)
         IN IF start > Len(s) \/ s[start] \notin e.match
            THEN [ok |-> FALSE, loc |-> start, toks |-> <<>>]
            ELSE IF e.kind = "Suppress"
                 THEN parseImpl(exprs, k + 1, s, start + 1, toks)
                 ELSE LET end == runEnd(s, start, e.match)
                      IN parseImpl(exprs, k + 1, s, end,
                             Append(toks, <<e.name, SubSeq(s, start, end - 1)>>))

\* faulty variant: parse_string(instring, parse_all=True), the whole text must match
parse_string_all(expr, instring) ==
    LET s == expandtabs(instring)
        r == parseImpl(expr, 1, s, 1, <<>>)
    IN IF r.ok /\ preParse(s, r.loc) <= Len(s)
       THEN [ok |-> FALSE, loc |-> r.loc, toks |-> <<>>]
       ELSE r

\* ParserElement.parse_string(instring), parse_all left at its default False:
\* tabs are expanded, the pattern is matched from the start of the text and
\* whatever follows the match is ignored.  ok = FALSE stands for ParseException.
parse_string(expr, instring) ==
    parseImpl(expr, 1, expandtabs(instring), 1, <<>>)

\* ParseResults.as_list(): the tokens in order
as_list(result) == [i \in 1..Len(result) |-> result[i][2]]

\* ParseResults.as_dict(): results name -> token, for the named tokens
as_dict(result) ==
    [k \in {result[i][1] : i \in 1..Len(result)} \ {""} |->
        result[CHOOSE i \in 1..Len(result) : result[i][1] = k /\
                  \A j \in 1..Len(result) : result[j][1] = k => j <= i][2]]


(***************************************************************************)
(* class ParseRos2Logs.  Each method is an operator from the instance's    *)
(* __log_data (and the arguments) to the new __log_data, the value         *)
(* returned and the lines printed.                                         *)
(***************************************************************************)
\* self.__pattern, set by __init__
pattern == define_patterns

\* self.__dict_keys, set by __init__ and returned by the dict_keys property
dict_keys == <<"log_severity", "timestamp", "node_name", "message">>

\* parse_log returns [] and parse_logs records '' for a line that fails: both
\* are the empty sequence <<>> here.
\* the line parse_log prints on ParseException
ErrorNotice == <<"Error: The string did not match the pattern.">>

\* the line main prints when argv[1] is absent or names no file
UsageNotice == <<"Usage: parse_ros2_logs.py <log file path>">>

\* faulty variant: the result is inserted at the front of __log_data
parse_log_inserts_first(self_log_data, target) ==
    LET result == parse_string(pattern, target)
    IN IF ~result.ok
       THEN [log_data |-> self_log_data, ret |-> <<>>, out |-> <<ErrorNotice>>]
       ELSE [log_data |-> <<result.toks>> \o self_log_data,
             ret |-> result.toks, out |-> <<>>]

parse_log(self_log_data, target) ==
    LET result == parse_string(pattern, target)
    IN IF ~result.ok
       THEN [log_data |-> self_log_data, ret |-> <<>>, out |-> <<ErrorNotice>>]
       ELSE [log_data |-> Append(self_log_data, result.toks),
             ret |-> result.toks, out |-> <<>>]

\* faulty variant: the loop records nothing for a line that fails
RECURSIVE parse_logs_loop_skips(_, _, _, _)
parse_logs_loop_skips(self_log_data, targets, i, parse_results) ==
    IF i > Len(targets)
    THEN [log_data |-> self_log_data, ret |-> parse_results, out |-> <<>>]
    ELSE LET result == parse_string(pattern, targets[i])
         IN IF ~result.ok
            THEN parse_logs_loop_skips(self_log_data, targets, i + 1,
                                       parse_results)
            ELSE parse_logs_loop_skips(Append(self_log_data, result.toks),
                                       targets, i + 1,
                                       Append(parse_results, result.toks))

\* faulty variant: the loop ends at the first line that fails
RECURSIVE parse_logs_loop_stops(_, _, _, _)
parse_logs_loop_stops(self_log_data, targets, i, parse_results) ==
    IF i > Len(targets)
    THEN [log_data |-> self_log_data, ret |-> parse_results, out |-> <<>>]
    ELSE LET result == parse_string(pattern, targets[i])
         IN IF ~result.ok
            THEN [log_data |-> self_log_data,
                  ret |-> Append(parse_results, <<>>), out |-> <<>>]
            ELSE parse_logs_loop_stops(Append(self_log_data, result.toks),
                                       targets, i + 1,
                                       Append(parse_results, result.toks))

\* the for loop of parse_logs from targets[i] on
RECURSIVE parse_logs_loop(_, _, _, _)
parse_logs_loop(self_log_data, targets, i, parse_results) ==
    IF i > Len(targets)
    THEN [log_data |-> self_log_data, ret |-> parse_results, out |-> <<>>]
    ELSE LET result == parse_string(pattern, targets[i])
         IN IF ~result.ok
            THEN parse_logs_loop(self_log_data, targets, i + 1,
                                 Append(parse_results, <<>>))
            ELSE parse_logs_loop(Append(self_log_data, result.toks), targets,
                                 i + 1, Append(parse_results, result.toks))

parse_logs(self_log_data, targets) ==
    parse_logs_loop(self_log_data, targets, 1, <<>>)

get_logs_as_dict(self_log_data) ==
    [log_data |-> self_log_data,
     ret |-> [i \in 1..Len(self_log_data) |-> as_dict(self_log_data[i])],
     out |-> <<>>]

\* faulty variant: the entries are popped off __log_data as they are converted
get_logs_as_list_draining(self_log_data) ==
    [log_data |-> <<>>,
     ret |-> [i \in 1..Len(self_log_data) |-> as_list(self_log_data[i])],
     out |-> <<>>]

get_logs_as_list(self_log_data) ==
    [log_data |-> self_log_data,
     ret |-> [i \in 1..Len(self_log_data) |-> as_list(self_log_data[i])],
     out |-> <<>>]

(***************************************************************************)
(* main().                                                                 *)
(***************************************************************************)
\* f.readlines(): the content cut after every newline, the newline kept
RECURSIVE readlines_from(_, _, _)
readlines_from(content, i, cur) ==
    IF i > Len(content) THEN (IF cur = <<>> THEN <<>> ELSE <<cur>>)
    ELSE IF content[i] = NL
         THEN <<Append(cur, NL)>> \o readlines_from(content, i + 1, <<>>)
         ELSE readlines_from(content, i + 1, Append(cur, content[i]))

readlines(content) == readlines_from(content, 1, <<>>)

\* faulty variant: ' '.join(i), no space after the last field
RECURSIVE print_fields_joined(_, _)
print_fields_joined(fields, j) ==
    IF j > Len(fields) THEN <<>>
    ELSE fields[j] \o (IF j < Len(fields) THEN <<SP>> ELSE <<>>)
             \o print_fields_joined(fields, j + 1)

\* for j in i: print('{} '.format(j), end = ''), then print('')
RECURSIVE print_fields(_, _)
print_fields(fields, j) ==
    IF j > Len(fields) THEN <<>>
    ELSE fields[j] \o <<SP>> \o print_fields(fields, j + 1)

\* for i in ros2_logs.get_logs_as_list(): one printed line per entry
RECURSIVE print_logs(_, _)
print_logs(logs, i) ==
    IF i > Len(logs) THEN <<>>
    ELSE <<print_fields(logs[i], 1)>> \o print_logs(logs, i + 1)

\* main() on a command line whose argv[1] names a file with this content
main_file(content) ==
    LET parsed == parse_logs(<<>>, readlines(content))
        listed == get_logs_as_list(parsed.log_data)
    IN [log_data |-> listed.log_data, ret |-> <<>>,
        out |-> parsed.out \o listed.out \o print_logs(listed.ret, 1)]

\* main() when argv[1] is absent or isfile() is false: usage, exit(0)
main_usage == [log_data |-> <<>>, ret |-> <<>>, out |-> <<UsageNotice>>]


(***************************************************************************)
(* Bounds and the texts the callers submit.                                *)
(***************************************************************************)
\* longest message body of a generated line
MaxMsgLen == 2

\* how many of the six brackets and the colon a generated line may lack
MaxDropped == 2

\* lines submitted to one instance over its life
MaxSubmitted == 3

\* lines in one parse_logs call
MaxBatch == 2

\* lines in the file main() reads
MaxFileLines == 2

TextsOver(alphabet, lo, hi) == UNION {[1..k -> alphabet] : k \in lo..hi}

\* bracket tokens without whitespace and without brackets
ClaimTokens == {<<"a">>, <<"b", COLON>>, <<".", "1">>, <<Kana>>}

\* bracket tokens of the characters the header Word lists
ValidTokens == {<<"a">>, <<"b", COLON>>}

\* message bodies of the characters the message Word lists
ClaimMessages == TextsOver({"a", SP, RB, COLON}, 1, MaxMsgLen)

\* what may stand between two bracket fields
Gaps == {<<>>, <<SP>>}

Bracketed(x) == <<LB>> \o x \o <<RB>>

\* the line [s][t][n]: m, the fields separated by gap
Form(s, t, n, m, gap) ==
    Bracketed(s) \o gap \o Bracketed(t) \o gap \o Bracketed(n)
        \o <<COLON, SP>> \o m

WellFormed ==
    {Form(s, t, n, m, g) : s \in ClaimTokens, t \in ClaimTokens,
                           n \in ClaimTokens, m \in ClaimMessages, g \in Gaps}

\* the seven structural characters of [s][t][n]: in order; 7 is the colon
Structure == <<LB, RB, LB, RB, LB, RB, COLON>>

Piece(k, drop) == IF k \in drop THEN <<>> ELSE <<Structure[k]>>

\* [s][t][n]: m without the structural characters numbered in drop
Lacking(drop, s, t, n, m) ==
    Piece(1, drop) \o s \o Piece(2, drop) \o Piece(3, drop) \o t
        \o Piece(4, drop) \o Piece(5, drop) \o n \o Piece(6, drop)
        \o Piece(7, drop) \o <<SP>> \o m

DropSets == {d \in SUBSET (1..7) : d # {} /\ Cardinality(d) <= MaxDropped}

MissingLines ==
    {Lacking(d, s, t, n, m) : d \in DropSets, s \in ValidTokens,
                              t \in {<<"a">>}, n \in ValidTokens,
                              m \in ClaimMessages}

Pads == {<<SP>>, <<TAB>>, <<NL>>}

\* bracket contents with whitespace before, after or inside the token
Leading == {p \o x : p \in Pads, x \in ValidTokens}
Trailing == {x \o p : p \in Pads, x \in ValidTokens}
Middle == {x \o p \o y : p \in Pads, x \in ValidTokens, y \in ValidTokens}

Spaced == Leading \cup Trailing \cup Middle

\* [s][t][n]: m with field number pos replaced by content
WithField(pos, content, m) ==
    Form(IF pos = 1 THEN content ELSE <<"a">>,
         IF pos = 2 THEN content ELSE <<"a">>,
         IF pos = 3 THEN content ELSE <<"a">>, m, <<>>)

SpacedLines ==
    {WithField(pos, c, m) : pos \in 1..3, c \in Spaced,
                            m \in TextsOver({"a", SP}, 1, MaxMsgLen)}

\* what may follow the colon of a line without a message
Blanks == {<<>>, <<SP>>, <<SP, SP>>, <<NL>>, <<SP, NL>>, <<TAB>>}

EmptyMessageLines ==
    {Bracketed(s) \o Bracketed(t) \o Bracketed(n) \o <<COLON>> \o b :
        s \in ValidTokens, t \in ValidTokens, n \in ValidTokens, b \in Blanks}

\* content the message Word cannot consume, and more text after it
Junk == {<<Kana>>, <<Kana, "a">>, <<NL, "a">>, <<Kana, SP, "a">>}

\* content the message Word does consume once tabs are expanded
TabJunk == {<<TAB, "a">>}

TrailingLines ==
    {Form(s, <<"a">>, n, m, <<>>) \o j :
        s \in ValidTokens, n \in ValidTokens, m \in ClaimMessages,
        j \in Junk \cup TabJunk}

\* content before the first bracket
Prefixes == {<<SP>>, <<NL, SP>>, <<"a">>, <<Kana>>, <<RB>>, <<COLON, SP>>}

LeadingLines ==
    {p \o Form(s, <<"a">>, n, m, <<>>) :
        p \in Prefixes, s \in ValidTokens, n \in ValidTokens,
        m \in TextsOver({"a", SP}, 1, MaxMsgLen)}

\* the lines of the single-line checks
ParseInputs ==
    WellFormed \cup MissingLines \cup SpacedLines \cup EmptyMessageLines
        \cup TrailingLines \cup LeadingLines

\* the lines an instance is fed over its life: four that parse (to three
\* different entries) and three that do not
Lines ==
    {Form(<<"a">>, <<"1">>, <<"a">>, <<"a">>, <<SP>>),
     Form(<<"b">>, <<"1">>, <<"b">>, <<"a", SP, RB>>, <<SP>>),
     Form(<<"b">>, <<"1">>, <<"b">>, <<"a", SP, RB>>, <<SP>>) \o <<Kana>>,
     Form(<<SP, "a">>, <<"1">>, <<"b">>, <<"b">>, <<>>),
     Form(<<"a", SP, "a">>, <<"1">>, <<"a">>, <<"a">>, <<SP>>),
     Lacking({1}, <<"a">>, <<"1">>, <<"a">>, <<"a">>),
     <<"b", "a", "d">>}


(***************************************************************************)
(* The state machine.                                                      *)
(***************************************************************************)
NotSeen == [has |-> FALSE, val |-> <<>>]

NoneSeen == [list |-> NotSeen, dict |-> NotSeen]

NoFile == [isfile |-> FALSE, content |-> <<>>]

\* a call of method op with argument arg whose outcome is r
Returns(op, arg, r) ==
    /\ log_data' = r.log_data
    /\ ret' = r.ret
    /\ stdout' = stdout \o r.out
    /\ call' = [op |-> op, arg |-> arg]

\* ros2_logs = ParseRos2Logs(), the module imported by a caller
Constructed ==
    /\ log_data = <<>>
    /\ stdout = <<>>
    /\ call = [op |-> "__init__", arg |-> <<>>]
    /\ ret = <<>>
    /\ submitted = <<>>
    /\ seen = NoneSeen
    /\ argv1 = NoFile
    /\ status = "imported"

ParseLogCall(target) ==
    /\ Returns("parse_log", target, parse_log(log_data, target))
    /\ submitted' = Append(submitted, target)
    /\ seen' = NoneSeen

ParseLogsCall(targets) ==
    /\ Returns("parse_logs", targets, parse_logs(log_data, targets))
    /\ submitted' = submitted \o targets
    /\ seen' = NoneSeen

ParseLog ==
    \E target \in Lines :
        /\ Len(submitted) < MaxSubmitted
        /\ ParseLogCall(target)
        /\ UNCHANGED <<pending, argv1, status>>

ParseLogs ==
    \E k \in 0..MaxBatch : \E targets \in [1..k -> Lines] :
        /\ Len(submitted) + k <= MaxSubmitted
        /\ ParseLogsCall(targets)
        /\ UNCHANGED <<pending, argv1, status>>

GetLogsAsList ==
    /\ Returns("get_logs_as_list", <<>>, get_logs_as_list(log_data))
    /\ seen' = [seen EXCEPT !.list = [has |-> TRUE, val |-> ret']]
    /\ UNCHANGED <<submitted, pending, argv1, status>>

GetLogsAsDict ==
    /\ Returns("get_logs_as_dict", <<>>, get_logs_as_dict(log_data))
    /\ seen' = [seen EXCEPT !.dict = [has |-> TRUE, val |-> ret']]
    /\ UNCHANGED <<submitted, pending, argv1, status>>

DictKeys ==
    /\ Returns("dict_keys", <<>>,
               [log_data |-> log_data, ret |-> dict_keys, out |-> <<>>])
    /\ UNCHANGED <<submitted, seen, pending, argv1, status>>

Init == Constructed /\ pending = <<>>

Next == ParseLog \/ ParseLogs \/ GetLogsAsList \/ GetLogsAsDict \/ DictKeys

\* an instance used through its methods
Spec == Init /\ [][Next]_vars

(***************************************************************************)
(* One line submitted to an instance that holds nothing or one entry,      *)
(* through parse_log or through parse_logs.                                *)
(***************************************************************************)
\* a line the instance may have accepted before
PriorLine == Form(<<"b">>, <<"1">>, <<"b">>, <<"b">>, <<SP>>)

InitParse ==
    /\ stdout = <<>>
    /\ call = [op |-> "__init__", arg |-> <<>>]
    /\ ret = <<>>
    /\ submitted \in {<<>>, <<PriorLine>>}
    /\ log_data = parse_logs(<<>>, submitted).log_data
    /\ seen = NoneSeen
    /\ argv1 = NoFile
    /\ status = "imported"
    /\ pending \in {<<line>> : line \in ParseInputs}

ParseLogPending ==
    /\ pending # <<>>
    /\ ParseLogCall(Head(pending))
    /\ pending' = Tail(pending)
    /\ UNCHANGED <<argv1, status>>

ParseLogsPending ==
    /\ pending # <<>>
    /\ ParseLogsCall(pending)
    /\ pending' = <<>>
    /\ UNCHANGED <<argv1, status>>

NextParse == ParseLogPending \/ ParseLogsPending

SpecParse == InitParse /\ [][NextParse]_vars

(***************************************************************************)
(* The command-line program.                                               *)
(***************************************************************************)
\* the lines a log file is made of
FileLines == Lines \cup {<<>>}

\* the content of a file of lines, the last one with or without its newline
RECURSIVE Joined(_, _, _)
Joined(lines, i, lastNL) ==
    IF i > Len(lines) THEN <<>>
    ELSE lines[i] \o (IF i < Len(lines) \/ lastNL THEN <<NL>> ELSE <<>>)
             \o Joined(lines, i + 1, lastNL)

\* the files, each with the lines it was written from
Written ==
    {[lines |-> lines, content |-> Joined(lines, 1, nl)] :
        lines \in UNION {[1..k -> FileLines] : k \in 0..MaxFileLines},
        nl \in BOOLEAN}

Files == {[isfile |-> TRUE, content |-> w.content] : w \in Written}

InitMain ==
    /\ log_data = <<>>
    /\ stdout = <<>>
    /\ call = [op |-> "main", arg |-> <<>>]
    /\ ret = <<>>
    /\ submitted = <<>>
    /\ seen = NoneSeen
    /\ pending = <<>>
    /\ argv1 \in Files \cup {NoFile}
    /\ status = "running"

MainFile ==
    /\ status = "running"
    /\ argv1.isfile
    /\ Returns("main", argv1.content, main_file(argv1.content))
    /\ submitted' = readlines(argv1.content)
    /\ status' = "returned"
    /\ UNCHANGED <<seen, pending, argv1>>

MainUsage ==
    /\ status = "running"
    /\ ~argv1.isfile
    /\ Returns("main", <<>>, main_usage)
    /\ status' = "exit(0)"
    /\ UNCHANGED <<submitted, seen, pending, argv1>>

NextMain == MainFile \/ MainUsage

SpecMain == InitMain /\ [][NextMain]_vars


(***************************************************************************)
(* The claims.                                                             *)
(***************************************************************************)
\* the first character of text that is not a blank, or "" if there is none
RECURSIVE FirstInk(_)
FirstInk(text) ==
    IF text = <<>> THEN ""
    ELSE IF Head(text) \in {SP, TAB, NL} THEN FirstInk(Tail(text))
    ELSE Head(text)

Ascii(text) == \A i \in 1..Len(text) : text[i] # Kana

\* the step is a parse_log call on the line
ParseLogOn(line) == call'.op = "parse_log" /\ call'.arg = line

\* the step is a parse_log or a one-line parse_logs call on the line
ParsedOn(line) ==
    \/ call'.op = "parse_log" /\ call'.arg = line
    \/ call'.op = "parse_logs" /\ call'.arg = <<line>>

\* the step accepted the line as the entry with these fields and appended it
Accepted(fields) ==
    /\ Len(log_data') = Len(log_data) + 1
    /\ SubSeq(log_data', 1, Len(log_data)) = log_data
    /\ as_list(log_data'[Len(log_data')]) = fields
    /\ ret' = IF call'.op = "parse_log" THEN log_data'[Len(log_data')]
              ELSE <<log_data'[Len(log_data')]>>

\* the step rejected the line: the failure marker, the Corpus as it was
Rejected ==
    /\ log_data' = log_data
    /\ ret' = IF call'.op = "parse_log" THEN <<>> ELSE <<(<<>>)>>

\* the lines [s][t][n]: m of C1 as stated, each with its four fields
C1_Cases ==
    {[line |-> Form(s, t, n, m, <<>>), fields |-> <<s, t, n, m>>] :
        s \in ClaimTokens, t \in ClaimTokens, n \in ClaimTokens,
        m \in ClaimMessages}

\* those of C1 amended: s, t, n of ASCII characters, m not beginning with a
\* space, the fields separated by a space or by nothing
C1_AmendedCases ==
    {[line |-> Form(s, t, n, m, g), fields |-> <<s, t, n, m>>] :
        s \in {x \in ClaimTokens : Ascii(x)},
        t \in {x \in ClaimTokens : Ascii(x)},
        n \in {x \in ClaimTokens : Ascii(x)},
        m \in {x \in ClaimMessages : Head(x) # SP}, g \in Gaps}

LinesOf(cases) == {c.line : c \in cases}

C1_Lines == LinesOf(C1_Cases)

C1_AmendedLines == LinesOf(C1_AmendedCases)

\* C1 as stated: every line [s][t][n]: m with s, t, n non-empty and free of
\* whitespace and brackets and m non-empty and of message characters is
\* accepted by parse_log as the entry (s, t, n, m), appended to the Corpus.
C1_AsStated ==
    [][(call'.op = "parse_log" /\ call'.arg \in C1_Lines) =>
          \A c \in C1_Cases : c.line = call'.arg => Accepted(c.fields)]_vars

\* C1 amended: every line [s][t][n]: m with s, t, n non-empty and of ASCII
\* letters, digits and punctuation other than brackets, and m non-empty, of
\* message characters and not beginning with a space, is accepted by
\* parse_log as the entry (s, t, n, m), appended to the Corpus.
C1_WellFormedAccepted ==
    [][(call'.op = "parse_log" /\ call'.arg \in C1_AmendedLines) =>
          \A c \in C1_AmendedCases : c.line = call'.arg => Accepted(c.fields)]_vars

\* C1 witness: a second entry, with a colon in a token and a bracket in the
\* message, was appended by parse_log
C1_Witness ==
    /\ call.op = "parse_log"
    /\ call.arg = Form(<<"b", COLON>>, <<"a">>, <<"b", COLON>>, <<"a", RB>>, <<>>)
    /\ Len(log_data) = 2
    /\ ret = log_data[2]

\* the message itself supplies the bracket or colon the line lacks
Supplies(drop, m) == FirstInk(m) = (IF drop = {7} THEN COLON ELSE RB)

\* the lines that lack brackets or the colon; a line whose message supplies
\* what is lacking has the full form and is not counted
TrulyMissingLines ==
    UNION {{Lacking(d, s, t, n, m) :
                s \in ValidTokens, t \in {<<"a">>}, n \in ValidTokens,
                m \in {x \in ClaimMessages : ~Supplies(d, x)}} : d \in DropSets}

\* the lines with whitespace between two characters of a bracket token
MiddleLines ==
    {WithField(pos, c, m) : pos \in 1..3, c \in Middle,
                            m \in TextsOver({"a", SP}, 1, MaxMsgLen)}

\* C2, the lines it names: a bracket or the colon lacking, whitespace inside
\* a bracket field (leading, trailing, middle), an empty message
C2_Lines == TrulyMissingLines \cup SpacedLines \cup EmptyMessageLines

\* C2 amended, the lines it names
C2_AmendedLines == TrulyMissingLines \cup MiddleLines \cup EmptyMessageLines

\* C2 as stated: parse_log rejects every such line and leaves the Corpus alone.
C2_AsStated ==
    [][(call'.op = "parse_log" /\ call'.arg \in C2_Lines) => Rejected]_vars

\* C2 amended: parse_log rejects (failure marker and notice), and leaves the
\* Corpus alone on, every line that lacks one or more of the brackets, lacks
\* the colon, has whitespace between two characters of a bracket token, or
\* has an empty message; whitespace at the start or the end of a bracket
\* field is skipped and is no cause of failure.
C2_DeviantRejected ==
    [][(call'.op = "parse_log" /\ call'.arg \in C2_AmendedLines)
            => Rejected /\ stdout' = Append(stdout, ErrorNotice)]_vars

\* C2 witness: a line with a space inside its node name was rejected by an
\* instance that held an entry, and holds it still
C2_Witness ==
    /\ call.op = "parse_log"
    /\ call.arg = WithField(3, <<"a", SP, "a">>, <<"a">>)
    /\ ret = <<>>
    /\ Len(log_data) = 1
    /\ stdout = <<ErrorNotice>>


\* a valid [s][t][n]: m followed by content the message Word cannot consume,
\* each line with the fields of its valid part
C4_Cases ==
    {[line |-> Form(s, <<"a">>, n, m, <<>>) \o j, fields |-> <<s, <<"a">>, n, m>>] :
        s \in ValidTokens, n \in ValidTokens,
        m \in {x \in ClaimMessages : Head(x) # SP}, j \in Junk}

C4_Lines == LinesOf(C4_Cases)

\* a valid [s][t][n]: m after whitespace alone
C4_BlankLedCases ==
    {[line |-> p \o Form(s, <<"a">>, n, m, <<>>), fields |-> <<s, <<"a">>, n, m>>] :
        p \in {x \in Prefixes : FirstInk(x) = ""},
        s \in ValidTokens, n \in ValidTokens,
        m \in {x \in TextsOver({"a", SP}, 1, MaxMsgLen) : Head(x) # SP}}

C4_BlankLedLines == LinesOf(C4_BlankLedCases)

\* a valid [s][t][n]: m after content that is not whitespace
C4_JunkLedLines ==
    {p \o Form(s, <<"a">>, n, m, <<>>) :
        p \in {x \in Prefixes : FirstInk(x) # ""},
        s \in ValidTokens, n \in ValidTokens,
        m \in TextsOver({"a", SP}, 1, MaxMsgLen)}

\* the line of a parse_log call or of a one-line parse_logs call
LineOf(c) == IF c.op = "parse_log" THEN c.arg ELSE c.arg[1]

Parsing == call'.op \in {"parse_log", "parse_logs"}

\* C4 as stated: a line made of a valid [s][t][n]: m and content after it that
\* the pattern cannot consume is rejected by parse_log and by parse_logs, and
\* adds nothing to the Corpus.
C4_AsStated ==
    [][(Parsing /\ LineOf(call') \in C4_Lines) => Rejected]_vars

\* C4 amended: matching is anchored at the start of the line only.  A line
\* made of a valid [s][t][n]: m and content after it that the message pattern
\* cannot consume is accepted by parse_log and by parse_logs as the entry
\* (s, t, n, m), what follows m being dropped; so is a valid line after
\* leading whitespace; a line with anything else before its first bracket is
\* rejected and adds nothing to the Corpus.
C4_AnchoredAtStartOnly ==
    [][/\ (Parsing /\ LineOf(call') \in C4_Lines) =>
              \A c \in C4_Cases : c.line = LineOf(call') => Accepted(c.fields)
       /\ (Parsing /\ LineOf(call') \in C4_BlankLedLines) =>
              \A c \in C4_BlankLedCases :
                  c.line = LineOf(call') => Accepted(c.fields)
       /\ (Parsing /\ LineOf(call') \in C4_JunkLedLines) => Rejected]_vars

\* C4 witness: parse_logs accepted a line that goes on after its message with
\* a character outside the message set and more text, the message cut there
C4_Witness ==
    /\ call.op = "parse_logs"
    /\ call.arg = <<Form(<<"a">>, <<"a">>, <<"a">>, <<"a", SP>>, <<>>) \o <<Kana, SP, "a">>>>
    /\ Len(ret) = 1
    /\ Len(log_data) = 2
    /\ ret[1] = log_data[2]
    /\ as_list(log_data[2])[4] = <<"a", SP>>

\* C7: for a line L without a newline, parse_log on L followed by a newline
\* succeeds exactly when parse_log on L does, returns the same four fields
\* and leaves the same Corpus.
C7_TrailingNewlineTolerated ==
    [][(call'.op = "parse_log" /\ \A i \in 1..Len(call'.arg) : call'.arg[i] # NL)
          => LET withNL == parse_log(log_data, Append(call'.arg, NL))
             IN /\ withNL.ret = ret'
                /\ withNL.log_data = log_data'
                /\ (withNL.ret # <<>> =>
                      \A k \in 1..4 :
                          \A i \in 1..Len(as_list(withNL.ret)[k]) :
                              as_list(withNL.ret)[k][i] # NL)]_vars

\* C7 witness: parse_log accepted a line without a newline whose message ends
\* in a space, so that the newline would follow whitespace
C7_Witness ==
    /\ call.op = "parse_log"
    /\ call.arg = Form(<<"a">>, <<"a">>, <<"a">>, <<"a", SP>>, <<>>)
    /\ ret # <<>>
    /\ as_list(ret)[4] = <<"a", SP>>


\* the line matches the grammar
Matches(line) == parse_string(pattern, line).ok

\* the entry the grammar yields for a line that matches
EntryOf(line) == parse_string(pattern, line).toks

\* the entries of the lines that match, in the order of the lines
SuccessfulEntries(lines) ==
    LET good == SelectSeq(lines, Matches)
    IN [i \in 1..Len(good) |-> EntryOf(good[i])]

\* C3: parse_logs on N lines returns N elements, element i the entry of line
\* i if the line matches the grammar and the failure placeholder if not, and
\* leaves the Corpus as it was followed by the entries of the lines that
\* matched, in input order.
C3_ParseLogsAligned ==
    [][call'.op = "parse_logs" =>
          /\ Len(ret') = Len(call'.arg)
          /\ \A i \in 1..Len(call'.arg) :
                ret'[i] = IF Matches(call'.arg[i]) THEN EntryOf(call'.arg[i])
                          ELSE <<>>
          /\ log_data' = log_data \o SuccessfulEntries(call'.arg)
          /\ Len(log_data') - Len(log_data)
                = Cardinality({i \in 1..Len(call'.arg) : ret'[i] # <<>>})]_vars

\* C3 witness: parse_logs on a line that fails and one that parses, by an
\* instance that held an entry: a placeholder, an entry, and a Corpus of two
C3_Witness ==
    /\ call.op = "parse_logs"
    /\ Len(call.arg) = 2
    /\ ret[1] = <<>>
    /\ ret[2] # <<>>
    /\ Len(log_data) = 2
    /\ log_data[2] = ret[2]

IsPrefix(a, b) == Len(a) <= Len(b) /\ SubSeq(b, 1, Len(a)) = a

\* C5: the Corpus of an instance that started empty is, in order, the entries
\* of the submitted lines that parsed, and the Corpus before a call is a
\* prefix of the Corpus after it.
C5_CorpusIsSuccessesInOrder ==
    /\ [](log_data = SuccessfulEntries(submitted))
    /\ [][IsPrefix(log_data, log_data')]_vars

\* C5 witness: three lines submitted through both methods, the middle one
\* failing, and a Corpus of two different entries
C5_Witness ==
    /\ Len(submitted) = 3
    /\ ~Matches(submitted[2])
    /\ Len(log_data) = 2
    /\ log_data[1] # log_data[2]
    /\ call.op = "parse_log"
    /\ stdout = <<>>

\* parse_log called on each line in turn: the Corpus left, the value returned
\* for each line and the notices printed
RECURSIVE OneByOne(_, _)
OneByOne(corpus, lines) ==
    IF lines = <<>> THEN [log_data |-> corpus, rets |-> <<>>, out |-> <<>>]
    ELSE LET first == parse_log(corpus, Head(lines))
             rest == OneByOne(first.log_data, Tail(lines))
         IN [log_data |-> rest.log_data,
             rets |-> <<first.ret>> \o rest.rets,
             out |-> first.out \o rest.out]

C8_ProjectionsAgree ==
    LET lists == get_logs_as_list(log_data).ret
        dicts == get_logs_as_dict(log_data).ret
    IN /\ Len(lists) = Len(log_data)
       /\ Len(dicts) = Len(log_data)
       /\ \A i \in 1..Len(log_data) :
            /\ DOMAIN dicts[i] = {"log_severity", "timestamp", "node_name", "message"}
            /\ Len(lists[i]) = 4
            /\ <<dicts[i]["log_severity"], dicts[i]["timestamp"],
                 dicts[i]["node_name"], dicts[i]["message"]>> = lists[i]
       /\ (call.op = "get_logs_as_list" => ret = lists)
       /\ (call.op = "get_logs_as_dict" => ret = dicts)

\* C8 witness: get_logs_as_dict returned two mappings
C8_Witness ==
    /\ call.op = "get_logs_as_dict"
    /\ Len(ret) = 2
    /\ ret[1] # ret[2]

\* C9: get_logs_as_list and get_logs_as_dict leave the Corpus as it is, and
\* each returns what it returned before if no parse call came in between.
C9_AccessorsAreReads ==
    [][/\ call'.op = "get_logs_as_list" =>
              log_data' = log_data /\ stdout' = stdout
                  /\ (seen.list.has => ret' = seen.list.val)
       /\ call'.op = "get_logs_as_dict" =>
              log_data' = log_data /\ stdout' = stdout
                  /\ (seen.dict.has => ret' = seen.dict.val)]_vars

\* C9 witness: get_logs_as_list called again after get_logs_as_dict, both
\* seen since the last parse call, on a Corpus of two
C9_Witness ==
    /\ call.op = "get_logs_as_list"
    /\ seen.list.has
    /\ seen.dict.has
    /\ Len(log_data) = 2
    /\ ret = seen.list.val


\* the line printed for an entry: each of the four fields, then one space
Printed(entry) ==
    as_list(entry)[1] \o <<SP>> \o as_list(entry)[2] \o <<SP>>
        \o as_list(entry)[3] \o <<SP>> \o as_list(entry)[4] \o <<SP>>

\* C10: main() on a file prints one line for every line of the file that
\* parses, in the order of the file, the four fields each followed by one
\* space, and nothing for a line that fails.
C10_FileModeOutput ==
    status = "returned" =>
        \A w \in Written :
            w.content = argv1.content =>
                LET entries == SuccessfulEntries(w.lines)
                IN /\ stdout = [i \in 1..Len(entries) |-> Printed(entries[i])]
                   /\ Len(stdout) = Len(SelectSeq(w.lines, Matches))

\* C10 witness: main() printed the second entry only after a file of two
\* lines, the first failing, the last without its newline
C10_Witness ==
    /\ status = "returned"
    /\ argv1.content =
          <<"b", "a", "d", NL>>
              \o Form(<<"b">>, <<"1">>, <<"b">>, <<"a", SP, RB>>, <<SP>>) \o <<Kana>>
    /\ stdout = << <<"b", SP, "1", SP, "b", SP, "a", SP, RB, SP>> >>

=============================================================================
